---- MODULE Spec2Model ----
(***************************************************************************)
(* Model of the two SRT -> After Effects JSX converters of CapEdify:       *)
(*   "converter" : src/CapEdify/srt_to_jsx_converter.py                    *)
(*   "jsx"       : src/CapEdify/srt_to_jsx.py                              *)
(* A Python str is a sequence of one-character strings.  A time is an      *)
(* integer number of milliseconds (the scripts hold seconds as a float;    *)
(* every timestamp the model feeds them has at most three fractional       *)
(* digits, so the millisecond count is the value up to float rounding).    *)
(***************************************************************************)
EXTENDS Integers, Sequences, FiniteSets, TLC

(***************************************************************************)
(* Python's str and re operations, as the scripts use them.                *)
(***************************************************************************)

\* The whitespace characters of the model's alphabet (str.strip, regex \s).
WS == {" ", "\n"}

\* The characters regex \d and int()/float() read as decimal digits.
Digit == {"0", "1", "2", "3", "4", "5", "6", "7", "8", "9"}

DigitVal(c) ==
    CASE c = "0" -> 0 [] c = "1" -> 1 [] c = "2" -> 2 [] c = "3" -> 3
      [] c = "4" -> 4 [] c = "5" -> 5 [] c = "6" -> 6 [] c = "7" -> 7
      [] c = "8" -> 8 [] c = "9" -> 9

\* First index >= i of s that holds no whitespace (Len(s)+1 when none).
RECURSIVE lskip(_, _)
lskip(s, i) == IF i <= Len(s) /\ s[i] \in WS THEN lskip(s, i + 1) ELSE i

\* Last index <= j of s that holds no whitespace (0 when none).
RECURSIVE rskip(_, _)
rskip(s, j) == IF j >= 1 /\ s[j] \in WS THEN rskip(s, j - 1) ELSE j

Between(s, i, j) == IF i > j THEN <<>> ELSE SubSeq(s, i, j)

\* str.strip()
strip(s) == Between(s, lskip(s, 1), rskip(s, Len(s)))

\* Whether sep occurs in s at index i.
occurs_at(s, sep, i) ==
    /\ i + Len(sep) - 1 <= Len(s)
    /\ \A k \in 1..Len(sep) : s[i + k - 1] = sep[k]

\* str.find from index i: the first index >= i where sep occurs, 0 when none.
RECURSIVE find(_, _, _)
find(s, sep, i) ==
    IF i + Len(sep) - 1 > Len(s) THEN 0
    ELSE IF occurs_at(s, sep, i) THEN i
    ELSE find(s, sep, i + 1)

\* str.split(sep) from index i on: the pieces between the occurrences of
\* sep, k being the next occurrence.
RECURSIVE split_from(_, _, _)
RECURSIVE split_at(_, _, _, _)
split_at(s, sep, i, k) ==
    IF k = 0 THEN << SubSeq(s, i, Len(s)) >>
    ELSE << SubSeq(s, i, k - 1) >> \o split_from(s, sep, k + Len(sep))

split_from(s, sep, i) == split_at(s, sep, i, find(s, sep, i))

\* str.split(sep)
split(s, sep) == split_from(s, sep, 1)

\* sep.join(parts)
RECURSIVE join(_, _)
join(sep, parts) ==
    IF Len(parts) = 0 THEN <<>>
    ELSE IF Len(parts) = 1 THEN parts[1]
    ELSE parts[1] \o sep \o join(sep, Tail(parts))

\* The pieces f[lo], ..., f[hi] put end to end.
RECURSIVE flatten(_, _, _)
flatten(f, lo, hi) ==
    IF lo > hi THEN <<>>
    ELSE IF lo = hi THEN f[lo]
    ELSE flatten(f, lo, (lo + hi) \div 2) \o flatten(f, (lo + hi) \div 2 + 1, hi)

\* str.replace(old, new) for a one-character old.
replace(s, old, new) ==
    flatten([i \in 1..Len(s) |-> IF s[i] = old THEN new ELSE << s[i] >>], 1, Len(s))

\* Last index in i..r of s that holds a line break (0 when none).
RECURSIVE last_newline(_, _, _)
last_newline(s, i, r) ==
    IF r < i THEN 0
    ELSE IF s[r] = "\n" THEN r
    ELSE last_newline(s, i, r - 1)

\* re.split(r'\n\s*\n', s) from index i on, the current piece starting at
\* index b.  A match starts at a line break (index k), runs over whitespace
\* (greedy, up to index r) and ends at the last line break of that run
\* (index j, 0 when the run holds none and there is no match at k).
RECURSIVE re_split_from(_, _, _)
RECURSIVE re_split_match(_, _, _, _, _)
re_split_match(s, b, k, r, j) ==
    IF j = 0 THEN re_split_from(s, b, r + 1)
    ELSE << SubSeq(s, b, k - 1) >> \o re_split_from(s, j + 1, j + 1)

re_split_run(s, b, k, r) == re_split_match(s, b, k, r, last_newline(s, k + 1, r))

\* k: the next line break, 0 when the rest of s holds none.
re_split_at(s, b, k) ==
    IF k = 0 THEN << SubSeq(s, b, Len(s)) >>
    ELSE re_split_run(s, b, k, lskip(s, k + 1) - 1)

re_split_from(s, b, i) == re_split_at(s, b, find(s, << "\n" >>, i))

\* re.split(r'\n\s*\n', s)
re_split(s) == re_split_from(s, 1, 1)

\* Whether s[i..] starts with \d{2}:\d{2}:\d{2},\d{3}.
timestamp_at(s, i) ==
    /\ i + 11 <= Len(s)
    /\ \A k \in {0, 1, 3, 4, 6, 7, 9, 10, 11} : s[i + k] \in Digit
    /\ s[i + 2] = ":" /\ s[i + 5] = ":" /\ s[i + 8] = ","

NoMatch == [matched |-> FALSE, group1 |-> <<>>, group2 |-> <<>>]

\* The second timestamp, at index b.
match_second(s, b) ==
    IF timestamp_at(s, b)
    THEN [matched |-> TRUE, group1 |-> SubSeq(s, 1, 12), group2 |-> SubSeq(s, b, b + 11)]
    ELSE NoMatch

\* --> at index a, then \s*.
match_arrow(s, a) ==
    IF occurs_at(s, << "-", "-", ">" >>, a) THEN match_second(s, lskip(s, a + 3))
    ELSE NoMatch

\* re.match(r'(\d{2}:\d{2}:\d{2},\d{3})\s*-->\s*(\d{2}:\d{2}:\d{2},\d{3})', s):
\* the match is anchored at the start of s and not at its end.
re_match(s) ==
    IF timestamp_at(s, 1) THEN match_arrow(s, lskip(s, 13)) ELSE NoMatch

\* The value of a run of decimal digits.
RECURSIVE digits_value(_)
digits_value(d) ==
    IF Len(d) = 0 THEN 0
    ELSE 10 * digits_value(SubSeq(d, 1, Len(d) - 1)) + DigitVal(d[Len(d)])

all_digits(d) == \A k \in 1..Len(d) : d[k] \in Digit

\* A conversion's result: [ok |-> FALSE] stands for the ValueError.
Negated(r) == [ok |-> r.ok, val |-> 0 - r.val]

\* Decimal digits, at least one.
unsigned_int(d) ==
    IF Len(d) > 0 /\ all_digits(d)
    THEN [ok |-> TRUE, val |-> digits_value(d)]
    ELSE [ok |-> FALSE, val |-> 0]

signed_int(t) ==
    IF Len(t) > 0 /\ t[1] = "-" THEN Negated(unsigned_int(Tail(t)))
    ELSE unsigned_int(t)

\* int(x): surrounding whitespace, an optional minus sign, decimal digits.
int(x) == signed_int(strip(x))

\* The first three fractional digits as milliseconds.
frac_ms(f) == digits_value(SubSeq(f \o << "0", "0", "0" >>, 1, 3))

\* Digits, an optional '.', digits; at least one digit in all.
whole_and_frac(whole, frac) ==
    IF all_digits(whole) /\ all_digits(frac) /\ Len(whole) + Len(frac) > 0
    THEN [ok |-> TRUE, val |-> 1000 * digits_value(whole) + frac_ms(frac)]
    ELSE [ok |-> FALSE, val |-> 0]

unsigned_float(parts) ==
    IF Len(parts) = 1 THEN whole_and_frac(parts[1], <<>>)
    ELSE IF Len(parts) = 2 THEN whole_and_frac(parts[1], parts[2])
    ELSE [ok |-> FALSE, val |-> 0]

signed_float(t) ==
    IF Len(t) > 0 /\ t[1] = "-" THEN Negated(unsigned_float(split(Tail(t), << "." >>)))
    ELSE unsigned_float(split(t, << "." >>))

\* float(x), in milliseconds: surrounding whitespace, an optional minus sign,
\* digits with an optional '.' and fraction.
float(x) == signed_float(strip(x))

(***************************************************************************)
(* parse_srt_time of both scripts.  The result is [raised, val]: raised is *)
(* "none" and val the time in milliseconds, or raised names the exception. *)
(***************************************************************************)

Raise(e) == [raised |-> e, val |-> 0]

\* A slip in the return statement: minutes weighted as hours are.
seconds_total_minutes_as_hours(hours, minutes, seconds) ==
    hours * 3600000 + minutes * 3600000 + seconds

\* return hours * 3600 + minutes * 60 + seconds, in milliseconds.
seconds_total(hours, minutes, seconds) ==
    hours * 3600000 + minutes * 60000 + seconds

\* parts[i]; the empty string where Python raises the IndexError, which
\* time_of reports before it looks at the field.
Part(parts, i) == IF i <= Len(parts) THEN parts[i] ELSE <<>>

\* The three conversions in the order the function makes them, each raising
\* before the next field is read.
time_of(parts, hours, minutes, seconds) ==
    IF ~hours.ok THEN Raise("ValueError")
    ELSE IF Len(parts) < 2 THEN Raise("IndexError")
    ELSE IF ~minutes.ok THEN Raise("ValueError")
    ELSE IF Len(parts) < 3 THEN Raise("IndexError")
    ELSE IF ~seconds.ok THEN Raise("ValueError")
    ELSE [raised |-> "none", val |-> seconds_total(hours.val, minutes.val, seconds.val)]

\* srt_to_jsx_converter.py: time_parts = time_str.replace(',', '.').split(':')
converter_time_parts(parts) ==
    time_of(parts, int(Part(parts, 1)), int(Part(parts, 2)), float(Part(parts, 3)))

converter_parse_srt_time(time_str) ==
    converter_time_parts(split(replace(time_str, ",", << "." >>), << ":" >>))

\* srt_to_jsx.py: time_str = time_str.replace(',', '.'); parts = time_str.split(':')
jsx_time_parts(parts) ==
    time_of(parts, int(Part(parts, 1)), int(Part(parts, 2)), float(Part(parts, 3)))

jsx_parse_srt_time(time_str) ==
    jsx_time_parts(split(replace(time_str, ",", << "." >>), << ":" >>))

(***************************************************************************)
(* parse_srt_file of both scripts.  The result is [raised, captions].      *)
(***************************************************************************)

NEWLINE == << "\n" >>

\* The separator srt_to_jsx_converter.py splits the timing line on.
ARROW == << " ", "-", "-", ">", " " >>

Lines3Onward(lines) == SubSeq(lines, 3, Len(lines))

\* captions.append({...}): the two conversions run while the dict is built,
\* start first.
converter_caption(seq_num, start, end, text) ==
    IF start.raised # "none" THEN [raised |-> start.raised, records |-> <<>>]
    ELSE IF end.raised # "none" THEN [raised |-> end.raised, records |-> <<>>]
    ELSE [raised |-> "none",
          records |-> << [sequence |-> seq_num, start |-> start.val,
                          end |-> end.val, text |-> text] >>]

\* start_time, end_time = time_line.split(' --> '): the unpacking raises
\* ValueError unless the split gives two pieces.
converter_unpack(seq_num, halves, text) ==
    IF Len(halves) # 2 THEN [raised |-> "ValueError", records |-> <<>>]
    ELSE converter_caption(seq_num, converter_parse_srt_time(halves[1]),
                           converter_parse_srt_time(halves[2]), text)

converter_block_lines(lines) ==
    IF Len(lines) < 3 THEN [raised |-> "none", records |-> <<>>]
    ELSE converter_unpack(strip(lines[1]), split(strip(lines[2]), ARROW),
                          strip(join(NEWLINE, Lines3Onward(lines))))

\* One pass of the loop body of srt_to_jsx_converter.py: [raised, records],
\* records holding the caption appended (none for a block under 3 lines).
converter_parse_block(block) == converter_block_lines(split(strip(block), NEWLINE))

\* The captions of a block in front of those of the blocks after it.
Prepend(records, rest) ==
    IF rest.raised # "none" THEN rest
    ELSE [raised |-> "none", captions |-> records \o rest.captions]

\* The loop over the blocks: the first block that raises ends the call, and
\* nothing is returned.
RECURSIVE converter_parse_blocks(_)
RECURSIVE converter_after_block(_, _)
converter_after_block(r, rest_blocks) ==
    IF r.raised # "none" THEN [raised |-> r.raised, captions |-> <<>>]
    ELSE Prepend(r.records, converter_parse_blocks(rest_blocks))

converter_parse_blocks(blocks) ==
    IF Len(blocks) = 0 THEN [raised |-> "none", captions |-> <<>>]
    ELSE converter_after_block(converter_parse_block(Head(blocks)), Tail(blocks))

converter_parse_srt_file(content) ==
    converter_parse_blocks(re_split(strip(content)))

\* text.replace('"', '\\"').replace('\n', '\\r') of srt_to_jsx.py, line 44.
jsx_clean_text(text) ==
    replace(replace(text, "\"", << "\\", "\"" >>), "\n", << "\\", "r" >>)

\* if time_match: ... subtitles.append({...}).  The regex admits only text
\* parse_srt_time converts, so nothing is raised.
jsx_block_match(time_match, text_lines) ==
    IF ~time_match.matched THEN <<>>
    ELSE << [start |-> jsx_parse_srt_time(time_match.group1).val,
             end |-> jsx_parse_srt_time(time_match.group2).val,
             text |-> jsx_clean_text(strip(join(<< " " >>, text_lines)))] >>

jsx_block_lines(lines) ==
    IF Len(lines) < 3 THEN <<>>
    ELSE jsx_block_match(re_match(lines[2]), Lines3Onward(lines))

\* One pass of the loop body of srt_to_jsx.py: the subtitles appended.
jsx_parse_block(block) == jsx_block_lines(split(strip(block), NEWLINE))

RECURSIVE jsx_parse_blocks(_)
jsx_parse_blocks(blocks) ==
    IF Len(blocks) = 0 THEN <<>>
    ELSE jsx_parse_block(Head(blocks)) \o jsx_parse_blocks(Tail(blocks))

jsx_parse_srt_file(content) ==
    [raised |-> "none", captions |-> jsx_parse_blocks(re_split(strip(content)))]

(***************************************************************************)
(* The generators.  The script text is a sequence of statements; a string  *)
(* literal is kept character by character, quotes included.                *)
(***************************************************************************)

QUOTE == << "\"" >>

Max(S) == CHOOSE m \in S : \A n \in S : n <= m

\* The padding srt_to_jsx_converter.py adds to the last end time: 2 seconds.
converter_padding == 2000

\* The duration srt_to_jsx.py passes to addComp: 60 seconds.
jsx_duration == 60000

\* safe_text of srt_to_jsx_converter.py, line 74.
converter_safe_text(text) ==
    replace(replace(text, "\"", << "\\", "\"" >>), "\n", << "\\", "n" >>)

\* {max([cap['end'] for cap in captions]) + 2}
converter_duration(captions) ==
    Max({captions[i].end : i \in 1..Len(captions)}) + converter_padding

converter_text_layer(i, caption) ==
    [stmt |-> "addText", index |-> i,
     literal |-> QUOTE \o converter_safe_text(caption.text) \o QUOTE,
     start |-> caption.start, end |-> caption.end]

converter_generate_jsx_script(captions) ==
    << [stmt |-> "addComp", duration |-> converter_duration(captions)] >>
    \o [i \in 1..Len(captions) |-> converter_text_layer(i, captions[i])]
    \o << [stmt |-> "alert"] >>

jsx_caption_entry(i, sub) ==
    [stmt |-> "addText", index |-> i,
     literal |-> QUOTE \o sub.text \o QUOTE,
     start |-> sub.start, end |-> sub.end]

jsx_generate_jsx(subtitles) ==
    << [stmt |-> "addComp", duration |-> jsx_duration] >>
    \o [i \in 1..Len(subtitles) |-> jsx_caption_entry(i, subtitles[i])]
    \o << [stmt |-> "alert"] >>

(***************************************************************************)
(* The input files the model runs the scripts on: up to MaxChunks          *)
(* fragments of subtitle text, concatenated.                               *)
(***************************************************************************)

MaxChunks == 3

DigitChar(n) ==
    CASE n = 0 -> "0" [] n = 1 -> "1" [] n = 2 -> "2" [] n = 3 -> "3"
      [] n = 4 -> "4" [] n = 5 -> "5" [] n = 6 -> "6" [] n = 7 -> "7"
      [] n = 8 -> "8" [] n = 9 -> "9"

\* HH:MM:SS,mmm as written in an SRT file.
Timestamp(h, m, sec, ms) ==
    << DigitChar(h \div 10), DigitChar(h % 10), ":",
       DigitChar(m \div 10), DigitChar(m % 10), ":",
       DigitChar(sec \div 10), DigitChar(sec % 10), ",",
       DigitChar(ms \div 100), DigitChar((ms \div 10) % 10), DigitChar(ms % 10) >>

\* 1 / 00:00:01,000 --> 00:00:03,000 / Hi
GoodBlock ==
    << "1", "\n" >> \o Timestamp(0, 0, 1, 0) \o ARROW \o Timestamp(0, 0, 3, 0)
    \o << "\n", "H", "i", "\n" >>

\* 2 / 00:00:04,500 --> 00:01:06,000 / a "b" / c : quotes, two text lines,
\* an end time past one minute.
QuotedBlock ==
    << "2", "\n" >> \o Timestamp(0, 0, 4, 500) \o ARROW \o Timestamp(0, 1, 6, 0)
    \o << "\n", "a", " ", "\"", "b", "\"", "\n", "c", "\n" >>

\* 3 / 00:00:03,000 --> 00:00:01,000 / a\" : the end before the start, and a
\* backslash in front of a quote.
BackwardBlock ==
    << "3", "\n" >> \o Timestamp(0, 0, 3, 0) \o ARROW \o Timestamp(0, 0, 1, 0)
    \o << "\n", "a", "\\", "\"", "\n" >>

\* 4 / xx / yo : a timing line without the arrow.
NoArrowBlock == << "4", "\n", "x", "x", "\n", "y", "o", "\n" >>

\* 5 / 00:00:0x,000 --> 00:00:09,000 / no : a timestamp that does not convert.
BadStampBlock ==
    << "5", "\n", "0", "0", ":", "0", "0", ":", "0", "x", ",", "0", "0", "0" >>
    \o ARROW \o Timestamp(0, 0, 9, 0) \o << "\n", "n", "o", "\n" >>

\* 6 / Hi : two lines only.
ShortBlock == << "6", "\n", "H", "i", "\n" >>

Chunks ==
    { << "\n" >>, << " " >>, GoodBlock, QuotedBlock, BackwardBlock,
      NoArrowBlock, BadStampBlock, ShortBlock }

RECURSIVE Concat(_)
Concat(cs) == IF Len(cs) = 0 THEN <<>> ELSE Head(cs) \o Concat(Tail(cs))

Documents ==
    { Concat(cs) : cs \in UNION { [1..n -> Chunks] : n \in 0..MaxChunks } }

(***************************************************************************)
(* The timestamps parse_srt_time is run on by itself: HH:MM:SS,mmm with    *)
(* each field drawn from the values below.                                 *)
(***************************************************************************)

FieldValues == {0, 1, 2, 3, 9, 10, 59, 99}

MillisValues == {0, 1, 10, 100, 500, 999}

Timestamps ==
    { Timestamp(h, m, sec, ms) :
        h \in FieldValues, m \in FieldValues, sec \in FieldValues, ms \in MillisValues }

(***************************************************************************)
(* One run of a script from the command line.                              *)
(***************************************************************************)

VARIABLES
    script,       \* "converter" or "jsx": which file is run
    has_arg,      \* whether the command line names an input file
    srt_exists,   \* os.path.exists(srt_path)
    content,      \* the text of the input file
    pc,           \* the statement the run is at
    captions,     \* the list parse_srt_file returned
    jsx_content,  \* the script generated in memory
    out_file,     \* the output path on disk: [exists, data]
    raised,       \* the exception propagating, "none" when none
    printed,      \* the last status message printed
    exit_code,    \* the process's exit status, -1 while it runs
    time_str,     \* the argument of a call of parse_srt_time by itself
    seconds       \* what that call gave: [raised, val]

vars == << script, has_arg, srt_exists, content, pc, captions, jsx_content,
           out_file, raised, printed, exit_code, time_str, seconds >>

NoCaptions == "ValueError: No captions found in SRT file"

Init ==
    /\ script \in {"converter", "jsx"}
    /\ has_arg \in BOOLEAN
    /\ srt_exists \in BOOLEAN
    /\ content \in Documents
    /\ (~has_arg => ~srt_exists)
    /\ (~srt_exists => content = <<>>)
    /\ pc = "main"
    /\ captions = <<>>
    /\ jsx_content = <<>>
    /\ out_file = [exists |-> FALSE, data |-> <<>>]
    /\ raised = "none"
    /\ printed = "none"
    /\ exit_code = -1
    /\ time_str = <<>>
    /\ seconds = [raised |-> "not called", val |-> 0]

\* An exception leaves convert_srt_to_jsx.  srt_to_jsx_converter.py lets it
\* reach the handler of __main__; srt_to_jsx.py catches it in its own try
\* block, prints and returns False.
Throw(e) ==
    IF script = "converter"
    THEN /\ raised' = e
         /\ pc' = "except"
         /\ UNCHANGED printed
    ELSE /\ raised' = "none"
         /\ printed' = "Error during conversion"
         /\ pc' = "return_false"

\* __main__ up to the call of convert_srt_to_jsx: argparse exits with status
\* 2 when the positional argument is missing; srt_to_jsx.py prints its usage
\* and exits with status 1.
main_args ==
    /\ pc = "main"
    /\ IF has_arg
       THEN /\ pc' = "exists"
            /\ UNCHANGED << printed, exit_code >>
       ELSE /\ pc' = "done"
            /\ printed' = "usage"
            /\ exit_code' = IF script = "converter" THEN 2 ELSE 1
    /\ UNCHANGED << script, has_arg, srt_exists, content, captions,
                    jsx_content, out_file, raised, time_str, seconds >>

\* if not os.path.exists(srt_path): ...
convert_exists ==
    /\ pc = "exists"
    /\ IF srt_exists
       THEN /\ pc' = "parse"
            /\ UNCHANGED << raised, printed >>
       ELSE IF script = "converter"
       THEN /\ raised' = "FileNotFoundError"
            /\ pc' = "except"
            /\ UNCHANGED printed
       ELSE /\ printed' = "SRT file not found"
            /\ pc' = "return_false"
            /\ UNCHANGED raised
    /\ UNCHANGED << script, has_arg, srt_exists, content, captions,
                    jsx_content, out_file, exit_code, time_str, seconds >>

parse_srt_file(path_content) ==
    IF script = "converter" THEN converter_parse_srt_file(path_content)
    ELSE jsx_parse_srt_file(path_content)

\* A slip in the test: a list is never None.
captions_is_none(caps) == FALSE

\* if not captions: / if not subtitles:
captions_empty(caps) == Len(caps) = 0

\* What follows the call of parse_srt_file, r being its outcome.
after_parse(r) ==
    IF r.raised # "none"
    THEN Throw(r.raised) /\ UNCHANGED captions
    ELSE /\ captions' = r.captions
         /\ IF ~captions_empty(r.captions)
            THEN /\ pc' = "generate"
                 /\ UNCHANGED << raised, printed >>
            ELSE IF script = "converter"
            THEN /\ raised' = NoCaptions
                 /\ pc' = "except"
                 /\ UNCHANGED printed
            ELSE /\ printed' = "No valid subtitles found in SRT file"
                 /\ pc' = "return_false"
                 /\ UNCHANGED raised

\* captions = parse_srt_file(srt_path), then the test for an empty list.
convert_parse ==
    /\ pc = "parse"
    /\ after_parse(parse_srt_file(content))
    /\ UNCHANGED << script, has_arg, srt_exists, content, jsx_content,
                    out_file, exit_code, time_str, seconds >>

generate(caps) ==
    IF script = "converter" THEN converter_generate_jsx_script(caps)
    ELSE jsx_generate_jsx(caps)

\* jsx_content = generate_jsx_script(captions) / generate_jsx(subtitles).
\* max() of an empty list raises ValueError in srt_to_jsx_converter.py.
convert_generate ==
    /\ pc = "generate"
    /\ IF script = "converter" /\ Len(captions) = 0
       THEN Throw("ValueError") /\ UNCHANGED jsx_content
       ELSE /\ jsx_content' = generate(captions)
            /\ pc' = "open"
            /\ UNCHANGED << raised, printed >>
    /\ UNCHANGED << script, has_arg, srt_exists, content, captions, out_file,
                    exit_code, time_str, seconds >>

\* open(output_path, 'w', encoding='utf-8'): the file is created or cut to
\* length 0, or the open fails and leaves the path as it was.
convert_open ==
    /\ pc = "open"
    /\ \/ /\ out_file' = [exists |-> TRUE, data |-> <<>>]
          /\ pc' = "write"
          /\ UNCHANGED << raised, printed >>
       \/ /\ Throw("OSError")
          /\ UNCHANGED out_file
    /\ UNCHANGED << script, has_arg, srt_exists, content, captions,
                    jsx_content, exit_code, time_str, seconds >>

\* f.write(jsx_content) and the close at the end of the with block: all of
\* the text reaches the file, or the write fails (disk full, I/O error)
\* after any shorter prefix of it did.
convert_write ==
    /\ pc = "write"
    /\ \/ /\ out_file' = [exists |-> TRUE, data |-> jsx_content]
          /\ pc' = "return_ok"
          /\ UNCHANGED << raised, printed >>
       \/ /\ \E k \in 0..(Len(jsx_content) - 1) :
                out_file' = [exists |-> TRUE, data |-> SubSeq(jsx_content, 1, k)]
          /\ Throw("OSError")
    /\ UNCHANGED << script, has_arg, srt_exists, content, captions,
                    jsx_content, exit_code, time_str, seconds >>

\* except Exception as e: print(...) of srt_to_jsx_converter.py; the script
\* then runs off its end, and the interpreter exits with status 0.
main_except ==
    /\ pc = "except"
    /\ printed' = "ERROR"
    /\ exit_code' = 0
    /\ pc' = "done"
    /\ UNCHANGED << script, has_arg, srt_exists, content, captions,
                    jsx_content, out_file, raised, time_str, seconds >>

\* convert_srt_to_jsx returned.  srt_to_jsx_converter.py prints its success
\* lines and runs off its end; srt_to_jsx.py printed them before returning
\* True and calls sys.exit(0 if success else 1).
main_exit ==
    /\ pc \in {"return_ok", "return_false"}
    /\ IF pc = "return_ok"
       THEN printed' = "SUCCESS" /\ exit_code' = 0
       ELSE UNCHANGED printed /\ exit_code' = 1
    /\ pc' = "done"
    /\ UNCHANGED << script, has_arg, srt_exists, content, captions,
                    jsx_content, out_file, raised, time_str, seconds >>

Next ==
    \/ main_args
    \/ convert_exists
    \/ convert_parse
    \/ convert_generate
    \/ convert_open
    \/ convert_write
    \/ main_except
    \/ main_exit

Spec == Init /\ [][Next]_vars

(***************************************************************************)
(* parse_srt_time called by itself on one timestamp.                       *)
(***************************************************************************)

InitTime ==
    /\ script \in {"converter", "jsx"}
    /\ time_str \in Timestamps
    /\ seconds = [raised |-> "not called", val |-> 0]
    /\ pc = "time"
    /\ has_arg = FALSE
    /\ srt_exists = FALSE
    /\ content = <<>>
    /\ captions = <<>>
    /\ jsx_content = <<>>
    /\ out_file = [exists |-> FALSE, data |-> <<>>]
    /\ raised = "none"
    /\ printed = "none"
    /\ exit_code = -1

parse_srt_time(s) ==
    IF script = "converter" THEN converter_parse_srt_time(s)
    ELSE jsx_parse_srt_time(s)

call_parse_srt_time ==
    /\ pc = "time"
    /\ seconds' = parse_srt_time(time_str)
    /\ pc' = "time_done"
    /\ UNCHANGED << script, has_arg, srt_exists, content, captions,
                    jsx_content, out_file, raised, printed, exit_code, time_str >>

NextTime == call_parse_srt_time

SpecTime == InitTime /\ [][NextTime]_vars

(***************************************************************************)
(* What the properties below speak of.                                     *)
(***************************************************************************)

\* parse_srt_file has been called on an input file that exists.
AfterParse == srt_exists /\ pc \in {"generate", "open", "write", "return_ok",
                                     "return_false", "except", "done"}

\* The exceptions a timing line can raise inside parse_srt_file.
ParseErrors == {"ValueError", "IndexError"}

WhitespaceOnly(s) == \A k \in 1..Len(s) : s[k] \in WS

\* The blocks of the input file and the lines of a block.
Blocks == re_split(strip(content))

BlockLines(b) == split(strip(b), NEWLINE)

\* t is HH:MM:SS,mmm and nothing else.
IsTimestamp(t) == Len(t) = 12 /\ timestamp_at(t, 1)

\* Its value in milliseconds, read digit by digit.
TimestampMs(t) ==
      3600000 * (10 * DigitVal(t[1]) + DigitVal(t[2]))
    + 60000 * (10 * DigitVal(t[4]) + DigitVal(t[5]))
    + 1000 * (10 * DigitVal(t[7]) + DigitVal(t[8]))
    + 100 * DigitVal(t[10]) + 10 * DigitVal(t[11]) + DigitVal(t[12])

\* <timestamp> --> <timestamp>
WellFormedTiming(l) ==
    /\ Len(l) = 29
    /\ IsTimestamp(SubSeq(l, 1, 12))
    /\ SubSeq(l, 13, 17) = ARROW
    /\ IsTimestamp(SubSeq(l, 18, 29))

\* No ' --> ' separator, or a timestamp that does not convert.
GarbledTiming(l) ==
    \/ find(l, ARROW, 1) = 0
    \/ \E h \in 1..Len(split(l, ARROW)) : ~IsTimestamp(split(l, ARROW)[h])

\* A block that is to give a record: 3 lines or more, line 2 a timing line.
ValidBlock(b) == Len(BlockLines(b)) >= 3 /\ WellFormedTiming(BlockLines(b)[2])

StartEnd(b) ==
    << TimestampMs(SubSeq(BlockLines(b)[2], 1, 12)),
       TimestampMs(SubSeq(BlockLines(b)[2], 18, 29)) >>

\* The start and end times of the valid blocks, in source order.
ExpectedTimes ==
    [i \in 1..Len(SelectSeq(Blocks, ValidBlock)) |->
        StartEnd(SelectSeq(Blocks, ValidBlock)[i])]

TimesOf(records) ==
    [i \in 1..Len(records) |-> << records[i].start, records[i].end >>]

\* The text-layer entries of the generated script, in the order emitted.
IsTextLayer(statement) == statement.stmt = "addText"

TextLayers(text) == SelectSeq(text, IsTextLayer)

\* The output file holds the whole generated script.
Written == out_file.exists /\ Len(jsx_content) > 0 /\ out_file.data = jsx_content

\* The output file holds a beginning of the generated script and no more.
PartiallyWritten ==
    /\ out_file.exists
    /\ Len(out_file.data) > 0
    /\ Len(out_file.data) < Len(jsx_content)
    /\ out_file.data = SubSeq(jsx_content, 1, Len(out_file.data))

\* The number of backslashes in a row that end just before index i.
RECURSIVE BackslashRun(_, _)
BackslashRun(lit, i) ==
    IF i > 1 /\ lit[i - 1] = "\\" THEN 1 + BackslashRun(lit, i - 1) ELSE 0

\* A quote the destination syntax does not read as escaped: an even number
\* of backslashes stands before it.
ClosingQuotes(lit) ==
    { i \in 2..Len(lit) : lit[i] = "\"" /\ BackslashRun(lit, i) % 2 = 0 }

\* Where the destination syntax ends a double-quoted string literal that
\* opens at index 1: at the first unescaped quote (0 when there is none, or
\* when a raw line break comes first).
LiteralEnd(lit) ==
    IF ClosingQuotes(lit) = {} THEN 0
    ELSE IF \E k \in 2..Len(lit) : lit[k] = "\n" /\ \A i \in ClosingQuotes(lit) : k < i
    THEN 0
    ELSE CHOOSE i \in ClosingQuotes(lit) : \A j \in ClosingQuotes(lit) : i <= j

SingleLiteral(lit) == LiteralEnd(lit) = Len(lit)

HasInnerQuote(lit) == \E k \in 2..(Len(lit) - 1) : lit[k] = "\""

\* The blocks parse_srt_file makes a record of, and the text of a block as
\* the script joins it (line break in srt_to_jsx_converter.py, space in
\* srt_to_jsx.py).
Yields(b) ==
    IF script = "converter" THEN Len(converter_parse_block(b).records) > 0
    ELSE Len(jsx_parse_block(b)) > 0

SourceText(b) ==
    strip(join(IF script = "converter" THEN NEWLINE ELSE << " " >>,
               Lines3Onward(BlockLines(b))))

(***************************************************************************)
(* The properties.                                                         *)
(***************************************************************************)

\* The documents C1 speaks of: every block has 3 lines or more, exactly one
\* has a well-formed timing line and every other one a garbled timing line.
OneGoodBlockRestGarbled ==
    /\ \A i \in 1..Len(Blocks) :
          /\ Len(BlockLines(Blocks[i])) >= 3
          /\ \/ WellFormedTiming(BlockLines(Blocks[i])[2])
             \/ GarbledTiming(BlockLines(Blocks[i])[2])
    /\ Cardinality({ i \in 1..Len(Blocks) : ValidBlock(Blocks[i]) }) = 1
    /\ Len(Blocks) >= 2

\* C1: malformed block tolerance, both scripts.  For a document whose blocks
\* all have 3 lines or more, one with a well-formed timing line and the
\* others with a garbled one, parse_srt_file raises nothing and returns
\* exactly the record of the well-formed block.
C1_MalformedBlockTolerance ==
    (AfterParse /\ OneGoodBlockRestGarbled) =>
        /\ raised \notin ParseErrors
        /\ Len(captions) = 1
        /\ TimesOf(captions) = ExpectedTimes

\* C2: exit status, both scripts.  The process ends with status 0 exactly
\* when at least one caption was parsed and the output file was written;
\* a missing input, zero captions or a failed write give another status.
C2_ExitStatus ==
    pc = "done" => ((exit_code = 0) <=> (Len(captions) > 0 /\ Written))

\* C3: no partial output, both scripts.  The output file is touched only
\* once parsing gave a non-empty list and the whole script was generated,
\* and a run that ends in a failure leaves no partly written script.
C3_NoPartialOutput ==
    /\ out_file.exists => (Len(captions) > 0 /\ jsx_content = generate(captions))
    /\ (pc = "done" /\ printed # "SUCCESS") => ~PartiallyWritten

\* C4: empty document, both scripts.  For an input that is empty or only
\* whitespace, parse_srt_file returns the empty list without raising, the
\* run reports that no captions were found (ValueError 'No captions found'
\* in srt_to_jsx_converter.py, the 'No valid subtitles' message and False in
\* srt_to_jsx.py), not a parse error, and no output file is written.
C4_EmptyDocument ==
    (AfterParse /\ WhitespaceOnly(content)) =>
        /\ captions = <<>>
        /\ jsx_content = <<>>
        /\ ~out_file.exists
        /\ script = "converter" =>
              /\ raised = NoCaptions
              /\ pc \in {"except", "done"}
              /\ (pc = "done" => printed = "ERROR")
        /\ script = "jsx" =>
              /\ raised = "none"
              /\ printed = "No valid subtitles found in SRT file"
              /\ pc \in {"return_false", "done"}
              /\ (pc = "done" => exit_code = 1)

\* A run of srt_to_jsx_converter.py on a file of three whitespace
\* characters has ended with the no-captions error and no output file.
C4_Witness ==
    /\ pc = "done"
    /\ srt_exists
    /\ script = "converter"
    /\ Len(content) = 3
    /\ WhitespaceOnly(content)
    /\ raised = NoCaptions
    /\ captions = <<>>
    /\ ~out_file.exists

\* C5: source order and block filtering, both scripts.  For every document
\* parse_srt_file returns one record for each block with 3 lines or more
\* and a well-formed timing line, none for any other block, in source
\* order; the generator emits one text-layer entry per record, in order.
C5_SourceOrderAndFiltering ==
    AfterParse =>
        /\ raised \notin ParseErrors
        /\ TimesOf(captions) = ExpectedTimes
        /\ Len(jsx_content) > 0 => TimesOf(TextLayers(jsx_content)) = TimesOf(captions)

\* C6: timestamp conversion, both scripts.  For every HH:MM:SS,mmm the
\* result of parse_srt_time is hours*3600 + minutes*60 + seconds +
\* milliseconds/1000, that is 3600000*HH + 60000*MM + 1000*SS + mmm
\* milliseconds, and nothing is raised.
C6_TimestampConversion ==
    pc = "time_done" => seconds = [raised |-> "none", val |-> TimestampMs(time_str)]

\* parse_srt_time("01:02:03,500") has returned 3723.5 seconds.
C6_Witness ==
    /\ pc = "time_done"
    /\ time_str = Timestamp(1, 2, 3, 500)
    /\ seconds = [raised |-> "none", val |-> 3723500]

\* C7: quote escaping end to end, both scripts.  A cue text that holds
\* double quotes is emitted inside a double-quoted literal that the
\* destination syntax reads as one string literal: no inner character
\* closes it early.
C7_QuoteEscaping ==
    \A k \in 1..Len(jsx_content) :
        (IsTextLayer(jsx_content[k]) /\ HasInnerQuote(jsx_content[k].literal))
            => SingleLiteral(jsx_content[k].literal)

\* C8: the container duration covers every cue, both scripts.  The duration
\* passed to addComp is at least the end time of every record emitted.
C8_DurationCoversEveryCue ==
    \A k \in 1..Len(jsx_content) :
        IsTextLayer(jsx_content[k]) => jsx_content[k].end <= jsx_content[1].duration

\* C9: record time invariant, both scripts.  Every record parse_srt_file
\* returns has a start time of 0 or more and an end time after its start.
C9_RecordTimeInvariant ==
    \A i \in 1..Len(captions) :
        captions[i].start >= 0 /\ captions[i].end > captions[i].start

\* C10: parse leaves the text unescaped, both scripts.  The text of every
\* record is the block's lines 3 onward joined and trimmed, each character
\* as in the source: no quote is escaped at parse time.
C10_ParseLeavesTextUnescaped ==
    (AfterParse /\ raised \notin ParseErrors) =>
        /\ Len(captions) = Len(SelectSeq(Blocks, Yields))
        /\ \A i \in 1..Len(captions) :
              captions[i].text = SourceText(SelectSeq(Blocks, Yields)[i])

====
